---- MODULE Spec2Model ----
(***************************************************************************)
(* Model of the digit-recognition PWA:                                     *)
(*   - service-worker.js : install / activate / fetch handlers over the   *)
(*     CacheStorage (specification Spec);                                  *)
(*   - js/ui.js (main application IIFE) : the bootstrap with retry and     *)
(*     exponential backoff (specification AppSpec);                        *)
(*   - js/ui.js (UIManager) and js/stats.js (StatsManager, CanvasManager): *)
(*     the handlers of the page once it is shown (specifications UiSpec    *)
(*     and CanvasSpec).                                                    *)
(***************************************************************************)
EXTENDS Integers, Sequences, FiniteSets, TLC

VARIABLES
    \* ---- service worker (service-worker.js) ----
    cacheKeys,      \* caches.keys(): generation names, in creation order
    store,          \* store[name][url]: the entry of a generation (or NoEntry)
    swState,        \* "parsed","installing","installed","activating","activated","redundant"
    installPc,      \* position in the install promise chain
    staticFailed,   \* manifest entries whose fetch failed in cache.addAll
    cdnPending,     \* cache.add(url) promises of install not yet settled
    cdnFailed,      \* CDN urls whose cache.add rejected (caught and logged)
    skipWaitingCalled,
    delPending,     \* caches.delete(name) promises of activate not yet settled
    deleteCalls,    \* names caches.delete was called with
    activateRejected, \* a caches.delete promise rejected (Promise.all rejected)
    claimCalled,    \* self.clients.claim() was called
    req,            \* req[r]: one fetch event being handled
    writes,         \* fire-and-forget caches.open(..).then(put) not yet settled
    \* ---- page (js/ui.js main application, js/stats.js) ----
    bootPc,         \* "idle","loading","sleeping","ready","failed"
    modelLoaded,
    currentAttempt,
    isLoaded,       \* ModelManager.isLoaded
    loadingStatus,
    errorShown,
    appShown,
    loadingVisible, \* the loading screen is displayed
    hideTimer,      \* hideLoading's 300 ms timer is pending
    initCalls,      \* ModelManager.init invocations in this page load
    waits,          \* the delays passed to sleep() in this page load, in order
    outcomes,       \* outcome of each ModelManager.init call of this page load
    secondary,      \* initializeApp: "none", "ok", or the collaborator that threw
    canvasReady,    \* CanvasManager.init completed
    uiReady,        \* UIManager.init completed
    stats,          \* StatsManager: totalPredictions, totalConfidence, averageConfidence
    displayed,      \* the statistics the page shows (updateStatsDisplay)
    stored,         \* localStorage[STORAGE_KEY]
    reloads,        \* number of page loads after the first
    lastIo,         \* outcome of this page's latest localStorage access
    \* ---- page once shown (js/ui.js UIManager, js/stats.js CanvasManager) ----
    objects,        \* fabricCanvas.getObjects().length
    historyLen,     \* drawingHistory.length
    isEmpty,        \* CanvasManager.isEmpty
    btnDisabled,    \* recognizeBtn.disabled
    isPredicting,   \* UIManager.isPredicting
    clicks,         \* clicks on the enabled recognize button in this page
    ignored,        \* those of them that returned at the isPredicting guard
    atImage,        \* handleRecognize calls awaiting getImageData()
    atPredict,      \* handleRecognize calls awaiting ModelManager.predict()
    toast,          \* the message of the last showToast() call of the page
    undoRun,        \* undo clicks in a row that removed a stroke
    prevStats,      \* getStats() when the previous page was left
    prevIo          \* lastIo when the previous page was left

swVars == <<cacheKeys, store, swState, installPc, staticFailed, cdnPending,
            cdnFailed, skipWaitingCalled, delPending, deleteCalls,
            activateRejected, claimCalled, req, writes>>
appVars == <<bootPc, modelLoaded, currentAttempt, isLoaded, loadingStatus,
             errorShown, appShown, loadingVisible, hideTimer, initCalls, waits,
             outcomes, secondary, canvasReady, uiReady, stats, displayed,
             stored, reloads, lastIo>>
uiVars == <<objects, historyLen, isEmpty, btnDisabled, isPredicting, clicks,
            ignored, atImage, atPredict, toast,
            undoRun, prevStats, prevIo>>
vars == <<swVars, appVars, uiVars>>

----------------------------------------------------------------------------
\* Bounds
NumStatic == 2      \* entries of STATIC_CACHE_FILES that are modelled
NumStale == 2       \* generations of earlier versions that may exist
MaxReq == 2         \* fetch events handled
MaxReloads == 1     \* page reloads through the retry button
MaxStored == 2      \* predictions counted by earlier sessions
MaxStrokes == 21    \* strokes on the canvas (CanvasSpec)
MaxDrawn == 2       \* strokes on the canvas (UiSpec)
MaxClicks == 2      \* clicks on the recognize button per page load

\* Program constants
CACHE_NAME == 1     \* 'digit-recognition-v1'
NumCdn == 2         \* length of CDN_CACHE_FILES
MAX_ATTEMPTS == 3
MAX_HISTORY == 20

----------------------------------------------------------------------------
\* Service worker: data

Url(o, n) == [origin |-> o, n |-> n]
STATIC_CACHE_FILES == {Url("same", i) : i \in 1..NumStatic}
CDN_CACHE_FILES == {Url("cross", i) : i \in 1..NumCdn}
\* n = 0: a same-origin url that is not in the manifest
Urls == STATIC_CACHE_FILES \cup CDN_CACHE_FILES \cup {Url("same", 0)}

StaleNames == {CACHE_NAME + i : i \in 1..NumStale}
Names == {CACHE_NAME} \cup StaleNames

Statuses == {200, 404}
NoEntry == [status |-> 0 - 1, body |-> 0]
Response(s, b) == [status |-> s, body |-> b]
EmptyCache == [u \in Urls |-> NoEntry]
\* what an earlier version left in its generation
StaleCache(name) ==
    [u \in Urls |-> IF u \in STATIC_CACHE_FILES \cup CDN_CACHE_FILES
                    THEN Response(200, 0 - name) ELSE NoEntry]

NoResult == [kind |-> "none", resp |-> NoEntry, err |-> ""]
IdleReq == [url |-> Url("same", 0), pc |-> "idle", netCalls |-> 0,
            net |-> "none", netResp |-> NoEntry, ord |-> 0,
            result |-> NoResult]

\* response.ok of the Fetch API, which cache.add / cache.addAll require
IsOk(status) == status >= 200 /\ status <= 299

RECURSIVE FirstMatch(_, _, _)
FirstMatch(keys, st, url) ==
    IF keys = <<>> THEN NoEntry
    ELSE IF st[Head(keys)][url] # NoEntry THEN st[Head(keys)][url]
    ELSE FirstMatch(Tail(keys), st, url)

\* caches.match(request): the first generation, in creation order, holding it
Match(url) == FirstMatch(cacheKeys, store, url)

KeySet == {cacheKeys[i] : i \in 1..Len(cacheKeys)}

\* caches.open(name): creates the generation when it does not exist
OpenKeys(name) == IF name \in KeySet THEN cacheKeys ELSE Append(cacheKeys, name)
OpenStore(name) == IF name \in KeySet THEN store ELSE [store EXCEPT ![name] = EmptyCache]

RECURSIVE SeqOfSet(_)
SeqOfSet(S) ==
    IF S = {} THEN <<>>
    ELSE LET x == CHOOSE y \in S : \A z \in S : y >= z
         IN Append(SeqOfSet(S \ {x}), x)

----------------------------------------------------------------------------
\* Service worker: install (service-worker.js 29-53)

NetError == 0 - 2   \* a fetch that rejects instead of answering
\* the possible results of fetching every manifest entry in cache.addAll
AddAllOutcomes == [STATIC_CACHE_FILES -> Statuses \cup {NetError}]
\* cache.addAll rejects, and writes nothing, unless every response is ok
AddAllFailures(outcome) == {f \in STATIC_CACHE_FILES : ~IsOk(outcome[f])}

InstallOpen ==
    /\ swState = "parsed"
    /\ swState' = "installing"
    /\ installPc' = "addAll"
    /\ cacheKeys' = OpenKeys(CACHE_NAME)
    /\ store' = OpenStore(CACHE_NAME)
    /\ UNCHANGED <<staticFailed, cdnPending, cdnFailed, skipWaitingCalled,
                   delPending, deleteCalls, activateRejected, claimCalled,
                   req, writes>>

\* the promise chain continues with the CDN files: this swallows the rejection
StaticRejected_swallowed ==
    /\ installPc' = "cdn"
    /\ cdnPending' = CDN_CACHE_FILES
    /\ UNCHANGED <<swState, store>>

\* addAll rejected: no rejection handler follows, so waitUntil's promise rejects
\* and the worker is discarded
StaticRejected ==
    /\ installPc' = "rejected"
    /\ swState' = "redundant"
    /\ UNCHANGED <<cdnPending, store>>

\* addAll fulfilled: the entries are written, then every cache.add(url) starts
StaticCached(outcome) ==
    /\ store' = [store EXCEPT ![CACHE_NAME] =
                    [u \in Urls |-> IF u \in STATIC_CACHE_FILES
                                    THEN Response(outcome[u], 0) ELSE @[u]]]
    /\ installPc' = "cdn"
    /\ cdnPending' = CDN_CACHE_FILES
    /\ UNCHANGED swState

InstallAddAll ==
    /\ swState = "installing"
    /\ installPc = "addAll"
    /\ \E outcome \in AddAllOutcomes :
        /\ staticFailed' = AddAllFailures(outcome)
        /\ IF AddAllFailures(outcome) = {}
           THEN StaticCached(outcome)
           ELSE StaticRejected
    /\ UNCHANGED <<cacheKeys, cdnFailed, skipWaitingCalled, delPending,
                   deleteCalls, activateRejected, claimCalled, req, writes>>

CdnAddOk(u) ==
    /\ swState = "installing"
    /\ installPc = "cdn"
    /\ u \in cdnPending
    /\ \E status \in {s \in Statuses : IsOk(s)} :
        store' = [store EXCEPT ![CACHE_NAME][u] = Response(status, 0)]
    /\ cdnPending' = cdnPending \ {u}
    /\ UNCHANGED <<cacheKeys, swState, installPc, staticFailed, cdnFailed,
                   skipWaitingCalled, delPending, deleteCalls,
                   activateRejected, claimCalled, req, writes>>

\* the rejection of cache.add reaches the install promise
CdnRejected_propagated(u) ==
    /\ cdnPending' = cdnPending \ {u}
    /\ installPc' = "rejected"
    /\ swState' = "redundant"

\* .catch(err => console.log(..)): the promise of this url fulfils
CdnRejected(u) ==
    /\ cdnPending' = cdnPending \ {u}
    /\ UNCHANGED <<installPc, swState>>

CdnAddFail(u) ==
    /\ swState = "installing"
    /\ installPc = "cdn"
    /\ u \in cdnPending
    /\ cdnFailed' = cdnFailed \cup {u}
    /\ CdnRejected(u)
    /\ UNCHANGED <<cacheKeys, store, staticFailed, skipWaitingCalled,
                   delPending, deleteCalls, activateRejected, claimCalled,
                   req, writes>>

\* a chain that does not wait for the cache.add promises
CdnSettled_notAwaited == TRUE

\* return Promise.allSettled(..): the chain waits until every promise settled
CdnSettled == cdnPending = {}

\* Promise.allSettled fulfilled: .then(() => self.skipWaiting())
SkipWaiting ==
    /\ swState = "installing"
    /\ installPc = "cdn"
    /\ CdnSettled
    /\ skipWaitingCalled' = TRUE
    /\ installPc' = "done"
    /\ swState' = "installed"
    /\ UNCHANGED <<cacheKeys, store, staticFailed, cdnPending, cdnFailed,
                   delPending, deleteCalls, activateRejected, claimCalled,
                   req, writes>>

----------------------------------------------------------------------------
\* Service worker: activate (service-worker.js 58-75)

ShouldDelete_all(cache) == TRUE

\* if (cache !== CACHE_NAME)
ShouldDelete(cache) == cache # CACHE_NAME

\* caches.keys().then(names => Promise.all(names.map(..caches.delete..)))
ActivateStart ==
    /\ swState = "installed"
    /\ swState' = "activating"
    /\ delPending' = {c \in KeySet : ShouldDelete(c)}
    /\ deleteCalls' = {c \in KeySet : ShouldDelete(c)}
    /\ UNCHANGED <<cacheKeys, store, installPc, staticFailed, cdnPending,
                   cdnFailed, skipWaitingCalled, activateRejected,
                   claimCalled, req, writes>>

DeleteOk(c) ==
    /\ c \in delPending
    /\ delPending' = delPending \ {c}
    /\ cacheKeys' = SelectSeq(cacheKeys, LAMBDA k : k # c)
    /\ store' = [store EXCEPT ![c] = EmptyCache]
    /\ UNCHANGED <<swState, installPc, staticFailed, cdnPending, cdnFailed,
                   skipWaitingCalled, deleteCalls, activateRejected,
                   claimCalled, req, writes>>

\* caches.delete rejects: Promise.all rejects, the other deletions go on
DeleteFail(c) ==
    /\ c \in delPending
    /\ delPending' = delPending \ {c}
    /\ activateRejected' = TRUE
    /\ UNCHANGED <<cacheKeys, store, swState, installPc, staticFailed,
                   cdnPending, cdnFailed, skipWaitingCalled, deleteCalls,
                   claimCalled, req, writes>>

\* a chain that does not wait for the caches.delete promises
DeletionsDone_notAwaited == TRUE

\* return Promise.all(..): fulfilled when every caches.delete fulfilled
DeletionsDone == delPending = {} /\ ~activateRejected

\* Promise.all fulfilled: .then(() => self.clients.claim())
ClientsClaim ==
    /\ swState = "activating"
    /\ DeletionsDone
    /\ claimCalled' = TRUE
    /\ swState' = "activated"
    /\ UNCHANGED <<cacheKeys, store, installPc, staticFailed, cdnPending,
                   cdnFailed, skipWaitingCalled, delPending, deleteCalls,
                   activateRejected, req, writes>>

\* waitUntil's promise rejected: the chain ends before clients.claim; the
\* worker is activated all the same
ActivateRejected ==
    /\ swState = "activating"
    /\ activateRejected
    /\ swState' = "activated"
    /\ UNCHANGED <<cacheKeys, store, installPc, staticFailed, cdnPending,
                   cdnFailed, skipWaitingCalled, delPending, deleteCalls,
                   activateRejected, claimCalled, req, writes>>

----------------------------------------------------------------------------
\* Service worker: fetch (service-worker.js 80-141)

lifecycleVars == <<swState, installPc, staticFailed, cdnPending, cdnFailed,
                   skipWaitingCalled, delPending, deleteCalls,
                   activateRejected, claimCalled>>

\* url.origin !== location.origin
IsCrossOrigin(url) == url.origin # "same"

\* a handler that never stores a copy
ShouldCache_never(response) == FALSE

ShouldCache_any(response) == response # NoEntry

\* if (response && response.status === 200)
ShouldCache(response) == response # NoEntry /\ response.status = 200

Cached(resp) == [kind |-> "cached", resp |-> resp, err |-> ""]
Live(resp) == [kind |-> "network", resp |-> resp, err |-> ""]
Failure(msg) == [kind |-> "error", resp |-> NoEntry, err |-> msg]

\* Once installed the manifest entries are interchangeable (each is cached with
\* the same status), so the i-th distinct manifest entry to be requested is
\* taken to be entry i; slots are used in order.
Requestable(r) ==
    LET asked == {req[q].url.n : q \in {p \in 1..MaxReq : p < r /\ req[p].url \in STATIC_CACHE_FILES}}
    IN {u \in Urls : u \in STATIC_CACHE_FILES => u.n <= Cardinality(asked) + 1}

\* the fetch event arrives; the strategy is chosen before any suspension, and
\* the same-origin branch calls fetch(request) at once
FetchEvent(r, url) ==
    /\ swState = "activated"
    /\ req[r].pc = "idle"
    /\ IF r = 1 THEN TRUE ELSE req[r - 1].pc # "idle"
    /\ url \in Requestable(r)
    /\ req' = [req EXCEPT ![r] =
                 IF IsCrossOrigin(url)
                 THEN [@ EXCEPT !.url = url, !.pc = "match"]
                 ELSE [@ EXCEPT !.url = url, !.pc = "net", !.netCalls = 1,
                                !.net = "pending"]]
    /\ UNCHANGED <<cacheKeys, store, writes, lifecycleVars>>

\* a cross-origin branch that asks the network whatever the cache holds
CrossOnMatch_network(r, cached) ==
    [req[r] EXCEPT !.pc = "net", !.netCalls = @ + 1, !.net = "pending"]

\* caches.match(request).then(cached => { if (cached) return cached;
\*                                        return fetch(request)... })
CrossOnMatch(r, cached) ==
    IF cached # NoEntry
    THEN [req[r] EXCEPT !.pc = "done", !.result = Cached(cached)]
    ELSE [req[r] EXCEPT !.pc = "net", !.netCalls = @ + 1, !.net = "pending"]

CrossMatch(r) ==
    /\ req[r].pc = "match"
    /\ req' = [req EXCEPT ![r] = CrossOnMatch(r, Match(req[r].url))]
    /\ UNCHANGED <<cacheKeys, store, writes, lifecycleVars>>

\* the pending write of a response: caches.open(CACHE_NAME).then(put)
WriteOf(r, response) == [url |-> req[r].url, resp |-> response]

\* the writes pending once the response handler ran: the put is started, not
\* awaited
WritesAfter(r, response) ==
    IF ShouldCache(response) THEN writes \cup {WriteOf(r, response)} ELSE writes

\* the rank of a status-200 response among the status-200 responses the
\* network has given for the same url, in order of arrival (0 for other statuses)
Ord(r, response) ==
    IF ShouldCache(response)
    THEN 1 + Cardinality({q \in 1..MaxReq : /\ req[q].url = req[r].url
                                            /\ req[q].ord > 0})
    ELSE 0

\* a handler that returns the response only from the put's continuation
Respond_awaitPut(r, response, result) ==
    IF ShouldCache(response)
    THEN [req[r] EXCEPT !.pc = "writing", !.net = "responded",
                        !.netResp = response, !.ord = Ord(r, response)]
    ELSE [req[r] EXCEPT !.pc = "done", !.net = "responded",
                        !.netResp = response, !.result = result]

\* return response: the handler's promise fulfils with it at once
Respond(r, response, result) ==
    [req[r] EXCEPT !.pc = "done", !.net = "responded", !.netResp = response,
                   !.ord = Ord(r, response), !.result = result]

\* fetch(request) fulfilled in the cross-origin branch (94-105)
CrossResponse(r) ==
    /\ req[r].pc = "net"
    /\ IsCrossOrigin(req[r].url)
    /\ \E status \in Statuses :
        LET response == Response(status, r) IN
        /\ writes' = WritesAfter(r, response)
        /\ req' = [req EXCEPT ![r] = Respond(r, response, Live(response))]
    /\ UNCHANGED <<cacheKeys, store, lifecycleVars>>

\* a catch that answers from the cache when it can
CrossOnNetFail_fallback(cached) ==
    IF cached # NoEntry THEN Cached(cached) ELSE Failure("network")

\* .catch(error => { console.log(..); throw error; })
CrossOnNetFail(cached) == Failure("network")

\* fetch(request) rejected in the cross-origin branch (106-109): rethrown
CrossNetFail(r) ==
    /\ req[r].pc = "net"
    /\ IsCrossOrigin(req[r].url)
    /\ req' = [req EXCEPT ![r] = [@ EXCEPT !.pc = "done", !.net = "failed",
                        !.result = CrossOnNetFail(Match(req[r].url))]]
    /\ UNCHANGED <<cacheKeys, store, writes, lifecycleVars>>

\* a same-origin branch that takes a status other than 200 for a failure
SameReturn_okOnly(response, cached) ==
    IF response.status # 200 /\ cached # NoEntry
    THEN Cached(cached) ELSE Live(response)

\* a same-origin branch that prefers the cached copy to the live response
SameReturn_stale(response, cached) ==
    IF cached # NoEntry THEN Cached(cached) ELSE Live(response)

\* return response (127)
SameReturn(response, cached) == Live(response)

\* fetch(request) fulfilled in the same-origin branch (117-128)
SameResponse(r) ==
    /\ req[r].pc = "net"
    /\ ~IsCrossOrigin(req[r].url)
    /\ \E status \in Statuses :
        LET response == Response(status, r) IN
        /\ writes' = WritesAfter(r, response)
        /\ req' = [req EXCEPT ![r] =
                     Respond(r, response, SameReturn(response, Match(req[r].url)))]
    /\ UNCHANGED <<cacheKeys, store, lifecycleVars>>

\* fetch(request) rejected in the same-origin branch: .catch(() => caches.match..)
SameNetFail(r) ==
    /\ req[r].pc = "net"
    /\ ~IsCrossOrigin(req[r].url)
    /\ req' = [req EXCEPT ![r] = [@ EXCEPT !.pc = "fallback", !.net = "failed"]]
    /\ UNCHANGED <<cacheKeys, store, writes, lifecycleVars>>

\* a fallback that answers a miss with an empty response
SameOnFallback_empty(cached) ==
    IF cached # NoEntry THEN Cached(cached) ELSE Live(Response(200, 0))

\* a fallback that fails whatever the cache holds
SameOnFallback_throw(cached) == Failure("No cached version available")

\* .then(cached => { if (cached) return cached;
\*                   throw new Error('No cached version available') })
SameOnFallback(cached) ==
    IF cached # NoEntry THEN Cached(cached)
    ELSE Failure("No cached version available")

SameFallback(r) ==
    /\ req[r].pc = "fallback"
    /\ req' = [req EXCEPT ![r] = [@ EXCEPT !.pc = "done",
                        !.result = SameOnFallback(Match(req[r].url))]]
    /\ UNCHANGED <<cacheKeys, store, writes, lifecycleVars>>

\* a put that keeps the entry the generation already holds
PutEntry_ifAbsent(st, w) ==
    IF st[CACHE_NAME][w.url] # NoEntry THEN st
    ELSE [st EXCEPT ![CACHE_NAME][w.url] = w.resp]

\* cache.put(request, responseClone): the entry of that request is replaced
PutEntry(st, w) == [st EXCEPT ![CACHE_NAME][w.url] = w.resp]

\* caches.open(CACHE_NAME).then(cache => cache.put(request, responseClone))
CacheWriteDone(w) ==
    /\ w \in writes
    /\ writes' = writes \ {w}
    /\ cacheKeys' = OpenKeys(CACHE_NAME)
    /\ store' = PutEntry(OpenStore(CACHE_NAME), w)
    /\ UNCHANGED <<req, lifecycleVars>>

\* the open or the put rejects: nothing awaits it, nothing is written
CacheWriteFail(w) ==
    /\ w \in writes
    /\ writes' = writes \ {w}
    /\ UNCHANGED <<cacheKeys, store, req, lifecycleVars>>

----------------------------------------------------------------------------
\* Page: statistics (js/stats.js 6-103)

\* confidences are percentages with one decimal; they are counted in tenths
Confidences == {873, 1000}

\* averageConfidence is the quotient totalConfidence / totalPredictions
Ratio(n, d) == [num |-> n, den |-> d]
ZeroStats == [totalPredictions |-> 0, totalConfidence |-> 0,
              averageConfidence |-> Ratio(0, 1)]
NoStored == [totalPredictions |-> 0 - 1, totalConfidence |-> 0,
             averageConfidence |-> Ratio(0, 1)]

\* Math.round(averageConfidence * 10) / 10, in tenths
RoundTenths(q) == (2 * q.num + q.den) \div (2 * q.den)

\* getStats()
GetStats(st) == [total |-> st.totalPredictions,
                 average |-> RoundTenths(st.averageConfidence)]

\* StatsManager.init: load(), then data.x || 0 for each field
StatsInit(st, data) == IF data = NoStored THEN st ELSE data

\* load(): the parsed item, or null when there is none or when getItem or
\* JSON.parse throws
Load(ok) == IF ok THEN stored ELSE NoStored

\* what save() of an earlier session can have left in localStorage
StoredBefore ==
    {NoStored} \cup
    {[totalPredictions |-> t, totalConfidence |-> s, averageConfidence |-> Ratio(s, t)] :
        <<t, s>> \in {p \in (1..MaxStored) \X (0..(MaxStored * 1000)) :
                        \E j \in 0..p[1] : p[2] = j * 873 + (p[1] - j) * 1000}}

----------------------------------------------------------------------------
\* Page: bootstrap (js/ui.js 314-487)

Status(msg, attempt) == [msg |-> msg, attempt |-> attempt]

pageVars == <<bootPc, modelLoaded, currentAttempt, isLoaded, loadingStatus,
              errorShown, appShown, loadingVisible, hideTimer, initCalls,
              waits, outcomes, secondary, canvasReady, uiReady, stats,
              displayed>>

\* the state of a freshly loaded page, before init() runs
FreshPage ==
    [bootPc |-> "idle",
     modelLoaded |-> FALSE,
     currentAttempt |-> 1,
     isLoaded |-> FALSE,
     loadingStatus |-> Status("", 0),
     errorShown |-> FALSE,
     appShown |-> FALSE,
     loadingVisible |-> TRUE,
     hideTimer |-> FALSE,
     initCalls |-> 0,
     waits |-> <<>>,
     outcomes |-> <<>>,
     secondary |-> "none",
     canvasReady |-> FALSE,
     uiReady |-> FALSE,
     stats |-> ZeroStats,
     displayed |-> GetStats(ZeroStats)]

\* the state of UIManager and CanvasManager before any event: no stroke, no
\* click; UIManager.init disables the recognize button before a listener runs
FreshUi ==
    [objects |-> 0,
     historyLen |-> 0,
     isEmpty |-> TRUE,
     btnDisabled |-> TRUE,
     isPredicting |-> FALSE,
     clicks |-> 0,
     ignored |-> 0,
     atImage |-> 0,
     atPredict |-> 0,
     toast |-> "none"]

\* no page was left yet, or StatsManager.init() had not run in it
NoPrev == [total |-> 0 - 1, average |-> 0]

PageLoaded ==
    /\ bootPc = FreshPage.bootPc
    /\ modelLoaded = FreshPage.modelLoaded
    /\ currentAttempt = FreshPage.currentAttempt
    /\ isLoaded = FreshPage.isLoaded
    /\ loadingStatus = FreshPage.loadingStatus
    /\ errorShown = FreshPage.errorShown
    /\ appShown = FreshPage.appShown
    /\ loadingVisible = FreshPage.loadingVisible
    /\ hideTimer = FreshPage.hideTimer
    /\ initCalls = FreshPage.initCalls
    /\ waits = FreshPage.waits
    /\ outcomes = FreshPage.outcomes
    /\ secondary = FreshPage.secondary
    /\ canvasReady = FreshPage.canvasReady
    /\ uiReady = FreshPage.uiReady
    /\ stats = FreshPage.stats
    /\ displayed = FreshPage.displayed
    /\ lastIo = "none"
    /\ objects = FreshUi.objects
    /\ historyLen = FreshUi.historyLen
    /\ isEmpty = FreshUi.isEmpty
    /\ btnDisabled = FreshUi.btnDisabled
    /\ isPredicting = FreshUi.isPredicting
    /\ clicks = FreshUi.clicks
    /\ ignored = FreshUi.ignored
    /\ atImage = FreshUi.atImage
    /\ atPredict = FreshUi.atPredict
    /\ toast = FreshUi.toast
    /\ undoRun = 0
    /\ prevStats = NoPrev
    /\ prevIo = "none"

\* an init() that also runs again from the error screen
CanStart_again == bootPc \in {"idle", "failed"}

\* init() runs once per page load, when the DOM is ready
CanStart == bootPc = "idle"

\* init(): the DOM is ready, loadModel() is entered and awaits ModelManager.init()
Start ==
    /\ CanStart
    /\ bootPc' = "loading"
    /\ loadingStatus' = Status("Loading AI Model...", 0)
    /\ initCalls' = initCalls + 1
    /\ UNCHANGED <<modelLoaded, currentAttempt, isLoaded, errorShown, appShown,
                   loadingVisible, hideTimer, waits, outcomes, secondary,
                   canvasReady, uiReady, stats, displayed, stored, reloads,
                   lastIo>>

Backoff_doubled(attempt) == (2 ^ (attempt - 1)) * 1000

\* Math.pow(2, currentAttempt - 2) * 1000, with currentAttempt already incremented
Backoff(attempt) == (2 ^ (attempt - 2)) * 1000

\* an initializeApp() without its try/catch: the exception reaches the catch
\* block of loadModel, which retries
InitializeApp_rethrow(failAt, data) ==
    /\ secondary' = IF failAt = "none" THEN "ok" ELSE failAt
    /\ canvasReady' = (failAt # "canvas")
    /\ uiReady' = (failAt = "none")
    /\ displayed' = IF failAt = "none" THEN GetStats(stats) ELSE displayed
    /\ stats' = IF failAt = "none" THEN StatsInit(stats, data) ELSE stats
    /\ lastIo' = IF failAt # "none" THEN lastIo
                 ELSE IF data = Load(TRUE) THEN "ok" ELSE "failed"
    /\ appShown' = (failAt = "none")
    /\ hideTimer' = (failAt = "none")
    /\ IF failAt = "none"
       THEN /\ bootPc' = "ready"
            /\ UNCHANGED <<errorShown, loadingVisible, currentAttempt,
                           loadingStatus, waits>>
       ELSE IF currentAttempt < MAX_ATTEMPTS
       THEN /\ currentAttempt' = currentAttempt + 1
            /\ loadingStatus' = Status("Retrying...", currentAttempt + 1)
            /\ waits' = Append(waits, (2 ^ (currentAttempt - 1)) * 1000)
            /\ bootPc' = "sleeping"
            /\ UNCHANGED <<errorShown, loadingVisible>>
       ELSE /\ errorShown' = TRUE
            /\ loadingVisible' = FALSE
            /\ bootPc' = "failed"
            /\ UNCHANGED <<currentAttempt, loadingStatus, waits>>

\* an initializeApp() that shows the app before the collaborators are set up
InitializeApp_showFirst(failAt, data) ==
    /\ secondary' = IF failAt = "none" THEN "ok" ELSE failAt
    /\ canvasReady' = (failAt # "canvas")
    /\ uiReady' = (failAt = "none")
    /\ displayed' = IF failAt = "none" THEN GetStats(stats) ELSE displayed
    /\ stats' = IF failAt = "none" THEN StatsInit(stats, data) ELSE stats
    /\ lastIo' = IF failAt # "none" THEN lastIo
                 ELSE IF data = Load(TRUE) THEN "ok" ELSE "failed"
    /\ appShown' = TRUE
    /\ hideTimer' = TRUE
    /\ errorShown' = (failAt # "none")
    /\ loadingVisible' = IF failAt = "none" THEN loadingVisible ELSE FALSE
    /\ bootPc' = IF failAt = "none" THEN "ready" ELSE "failed"
    /\ UNCHANGED <<currentAttempt, loadingStatus, waits>>

\* initializeApp(): CanvasManager.init(), UIManager.init(), StatsManager.init(),
\* hideLoading(), showApp(); any exception is caught and shows the error screen,
\* and loadModel() returns normally
InitializeApp(failAt, data) ==
    /\ secondary' = IF failAt = "none" THEN "ok" ELSE failAt
    /\ canvasReady' = (failAt # "canvas")
    /\ uiReady' = (failAt = "none")
    /\ displayed' = IF failAt = "none" THEN GetStats(stats) ELSE displayed
    /\ stats' = IF failAt = "none" THEN StatsInit(stats, data) ELSE stats
    /\ lastIo' = IF failAt # "none" THEN lastIo
                 ELSE IF data = Load(TRUE) THEN "ok" ELSE "failed"
    /\ appShown' = (failAt = "none")
    /\ hideTimer' = (failAt = "none")
    /\ errorShown' = (failAt # "none")
    /\ loadingVisible' = IF failAt = "none" THEN loadingVisible ELSE FALSE
    /\ bootPc' = IF failAt = "none" THEN "ready" ELSE "failed"
    /\ UNCHANGED <<currentAttempt, loadingStatus, waits>>

\* a ModelManager.init() that fulfils without marking the model as loaded
ModelInit_unmarked == FALSE

\* ModelManager.init(): isLoaded = true, then return true
ModelInit == TRUE

\* ModelManager.init() fulfils
LoadOk ==
    /\ bootPc = "loading"
    /\ isLoaded' = ModelInit
    /\ modelLoaded' = TRUE
    /\ outcomes' = Append(outcomes, "ok")
    /\ \E failAt \in {"none", "canvas", "ui"} :
          \E data \in {Load(ok) : ok \in IF failAt = "none" THEN BOOLEAN ELSE {TRUE}} :
              InitializeApp(failAt, data)
    /\ UNCHANGED <<initCalls, stored, reloads>>

\* a catch block that gives up one attempt early
MayRetry_early(attempt) == attempt < MAX_ATTEMPTS - 1

\* a catch block that retries while currentAttempt <= MAX_ATTEMPTS
MayRetry_inclusive(attempt) == attempt <= MAX_ATTEMPTS

\* if (currentAttempt < MAX_ATTEMPTS)
MayRetry(attempt) == attempt < MAX_ATTEMPTS

\* ModelManager.init() rejects: the catch block of loadModel
LoadFail ==
    /\ bootPc = "loading"
    /\ outcomes' = Append(outcomes, "fail")
    /\ IF MayRetry(currentAttempt)
       THEN /\ currentAttempt' = currentAttempt + 1
            /\ loadingStatus' = Status("Retrying...", currentAttempt + 1)
            /\ waits' = Append(waits, Backoff(currentAttempt + 1))
            /\ bootPc' = "sleeping"
            /\ UNCHANGED <<errorShown, loadingVisible>>
       ELSE /\ errorShown' = TRUE
            /\ loadingVisible' = FALSE
            /\ bootPc' = "failed"
            /\ UNCHANGED <<currentAttempt, loadingStatus, waits>>
    /\ UNCHANGED <<modelLoaded, isLoaded, appShown, hideTimer, initCalls, secondary,
                   canvasReady, uiReady, stats, displayed, stored, reloads,
                   lastIo>>

\* sleep(delay) elapsed: loadModel() is entered again
SleepDone ==
    /\ bootPc = "sleeping"
    /\ bootPc' = "loading"
    /\ loadingStatus' = Status("Loading AI Model...", 0)
    /\ initCalls' = initCalls + 1
    /\ UNCHANGED <<modelLoaded, currentAttempt, isLoaded, errorShown, appShown,
                   loadingVisible, hideTimer, waits, outcomes, secondary,
                   canvasReady, uiReady, stats, displayed, stored, reloads,
                   lastIo>>

\* hideLoading's setTimeout callback: loadingScreen.style.display = 'none'
LoadingHidden ==
    /\ hideTimer
    /\ hideTimer' = FALSE
    /\ loadingVisible' = FALSE
    /\ UNCHANGED <<bootPc, modelLoaded, currentAttempt, isLoaded, loadingStatus,
                   errorShown, appShown, initCalls, waits, outcomes, secondary,
                   canvasReady, uiReady, stats, displayed, stored, reloads,
                   lastIo>>

\* a retry that calls loadModel() again in the same page
Reloaded_samePage ==
    /\ bootPc' = "idle"
    /\ errorShown' = FALSE
    /\ UNCHANGED <<modelLoaded, currentAttempt, isLoaded, loadingStatus,
                   appShown, loadingVisible, hideTimer, initCalls, waits,
                   outcomes, secondary, canvasReady, uiReady, stats, displayed,
                   lastIo>>

\* window.location.reload(): every script runs again from its initial state
Reloaded ==
    /\ bootPc' = FreshPage.bootPc
    /\ modelLoaded' = FreshPage.modelLoaded
    /\ currentAttempt' = FreshPage.currentAttempt
    /\ isLoaded' = FreshPage.isLoaded
    /\ loadingStatus' = FreshPage.loadingStatus
    /\ errorShown' = FreshPage.errorShown
    /\ appShown' = FreshPage.appShown
    /\ loadingVisible' = FreshPage.loadingVisible
    /\ hideTimer' = FreshPage.hideTimer
    /\ initCalls' = FreshPage.initCalls
    /\ waits' = FreshPage.waits
    /\ outcomes' = FreshPage.outcomes
    /\ secondary' = FreshPage.secondary
    /\ canvasReady' = FreshPage.canvasReady
    /\ uiReady' = FreshPage.uiReady
    /\ stats' = FreshPage.stats
    /\ displayed' = FreshPage.displayed
    /\ lastIo' = "none"

\* retry(): the click on the retry button of the error screen
Retry ==
    /\ errorShown
    /\ reloads < MaxReloads
    /\ reloads' = reloads + 1
    /\ Reloaded
    /\ UNCHANGED stored

----------------------------------------------------------------------------
\* Page once shown: CanvasManager (js/stats.js 286-466), UIManager (js/ui.js
\* 6-307) and the StatsManager calls they make

bootVars == <<bootPc, modelLoaded, currentAttempt, isLoaded, loadingStatus,
              errorShown, appShown, loadingVisible, hideTimer, initCalls,
              waits, outcomes, secondary, canvasReady, uiReady>>
statVars == <<stats, displayed, stored, lastIo>>
canvasVars == <<objects, historyLen, isEmpty, undoRun>>
sessionVars == <<reloads, prevStats, prevIo>>
predVars == <<isPredicting, clicks, ignored, atImage, atPredict, toast>>

\* the app container is visible and initializeApp attached every listener
Shown == appShown /\ canvasReady /\ uiReady

\* saveState(): push, then shift when longer than MAX_HISTORY
SaveState(len) == IF len + 1 > MAX_HISTORY THEN len ELSE len + 1

\* fabric's 'path:created' listener: a stroke was drawn
Stroke(max) ==
    /\ Shown
    /\ objects < max
    /\ objects' = objects + 1
    /\ isEmpty' = FALSE
    /\ historyLen' = SaveState(historyLen)
    /\ btnDisabled' = FALSE
    /\ undoRun' = 0
    /\ UNCHANGED <<predVars, bootVars, statVars, sessionVars>>

\* handleUndo(): CanvasManager.undo() removes the last object when there is one
Undo ==
    /\ Shown
    /\ IF objects > 0
       THEN /\ objects' = objects - 1
            /\ historyLen' = IF historyLen > 0 THEN historyLen - 1 ELSE historyLen
            /\ isEmpty' = IF objects - 1 = 0 THEN TRUE ELSE isEmpty
            /\ btnDisabled' = IF objects - 1 = 0 THEN TRUE ELSE btnDisabled
            /\ undoRun' = undoRun + 1
       ELSE UNCHANGED <<objects, historyLen, isEmpty, btnDisabled, undoRun>>
    /\ UNCHANGED <<predVars, bootVars, statVars, sessionVars>>

\* handleClear(): CanvasManager.clear(), disableRecognizeButton()
Clear ==
    /\ Shown
    /\ objects' = 0
    /\ historyLen' = 0
    /\ isEmpty' = TRUE
    /\ btnDisabled' = TRUE
    /\ undoRun' = 0
    /\ UNCHANGED <<predVars, bootVars, statVars, sessionVars>>

\* a handler without the isPredicting guard
Busy_never == FALSE

\* if (isPredicting) return;
Busy == isPredicting

\* handleRecognize() up to its first await: a click on the enabled button
RecognizeClick ==
    /\ Shown
    /\ ~btnDisabled
    /\ clicks < MaxClicks
    /\ clicks' = clicks + 1
    /\ IF Busy
       THEN /\ ignored' = ignored + 1
            /\ UNCHANGED <<isPredicting, btnDisabled, atImage>>
       ELSE /\ isPredicting' = TRUE
            /\ btnDisabled' = TRUE
            /\ atImage' = atImage + 1
            /\ UNCHANGED ignored
    /\ UNCHANGED <<atPredict, toast, canvasVars, bootVars, statVars,
                   sessionVars>>

\* catch and finally of handleRecognize(): the toast, isPredicting = false,
\* recognizeBtn.disabled = false
PredictionFailed ==
    /\ toast' = "failed"
    /\ isPredicting' = FALSE
    /\ btnDisabled' = FALSE
    /\ UNCHANGED <<clicks, ignored, canvasVars, bootVars, statVars, sessionVars>>

\* CanvasManager.getImageData() fulfils and ModelManager.predict() is called,
\* which throws 'Model not loaded' unless isLoaded
ImageResolved ==
    /\ atImage > 0
    /\ atImage' = atImage - 1
    /\ IF isLoaded
       THEN /\ atPredict' = atPredict + 1
            /\ UNCHANGED <<isPredicting, btnDisabled, clicks, ignored, toast,
                           canvasVars, bootVars, statVars, sessionVars>>
       ELSE /\ PredictionFailed
            /\ UNCHANGED atPredict

\* CanvasManager.getImageData() rejects (img.onerror)
ImageRejected ==
    /\ atImage > 0
    /\ atImage' = atImage - 1
    /\ PredictionFailed
    /\ UNCHANGED atPredict

\* an addPrediction that counts a prediction twice
AddPrediction_twice(st, confidence) ==
    [totalPredictions |-> st.totalPredictions + 2,
     totalConfidence |-> st.totalConfidence + confidence,
     averageConfidence |-> Ratio(st.totalConfidence + confidence,
                                 st.totalPredictions + 2)]

\* addPrediction(confidence), before save()
AddPrediction(st, confidence) ==
    [totalPredictions |-> st.totalPredictions + 1,
     totalConfidence |-> st.totalConfidence + confidence,
     averageConfidence |-> Ratio(st.totalConfidence + confidence,
                                 st.totalPredictions + 1)]

\* a save() that never reaches localStorage
Save_skipped(st, ok) == stored

\* save(): localStorage.setItem of the three fields; an exception of setItem
\* is caught and logged
Save(st, ok) ==
    IF ok THEN [totalPredictions |-> st.totalPredictions,
                totalConfidence |-> st.totalConfidence,
                averageConfidence |-> st.averageConfidence]
    ELSE stored

\* ModelManager.predict() fulfils: StatsManager.addPrediction, the displays,
\* then finally
PredictResolved(confidence, ok) ==
    /\ atPredict > 0
    /\ atPredict' = atPredict - 1
    /\ stats' = AddPrediction(stats, confidence)
    /\ stored' = Save(AddPrediction(stats, confidence), ok)
    /\ lastIo' = IF ok THEN "ok" ELSE "failed"
    /\ displayed' = GetStats(AddPrediction(stats, confidence))
    /\ toast' = "complete"
    /\ isPredicting' = FALSE
    /\ btnDisabled' = FALSE
    /\ UNCHANGED <<clicks, ignored, atImage, canvasVars, bootVars, sessionVars>>

\* ModelManager.predict() rejects
PredictRejected ==
    /\ atPredict > 0
    /\ atPredict' = atPredict - 1
    /\ PredictionFailed
    /\ UNCHANGED atImage

\* handleResetStats(): StatsManager.reset(), updateStatsDisplay
ResetStats(ok) ==
    /\ Shown
    /\ stats' = ZeroStats
    /\ stored' = Save(ZeroStats, ok)
    /\ lastIo' = IF ok THEN "ok" ELSE "failed"
    /\ displayed' = GetStats(ZeroStats)
    /\ toast' = "reset"
    /\ UNCHANGED <<canvasVars, btnDisabled, isPredicting, clicks, ignored,
                   atImage, atPredict, bootVars, sessionVars>>

\* the page is left and opened again: every script starts from its initial
\* state, localStorage is kept
NewSession ==
    /\ reloads < MaxReloads
    /\ reloads' = reloads + 1
    /\ prevStats' = IF secondary = "ok" THEN GetStats(stats) ELSE NoPrev
    /\ prevIo' = lastIo
    /\ Reloaded
    /\ objects' = FreshUi.objects
    /\ historyLen' = FreshUi.historyLen
    /\ isEmpty' = FreshUi.isEmpty
    /\ btnDisabled' = FreshUi.btnDisabled
    /\ isPredicting' = FreshUi.isPredicting
    /\ clicks' = FreshUi.clicks
    /\ ignored' = FreshUi.ignored
    /\ atImage' = FreshUi.atImage
    /\ atPredict' = FreshUi.atPredict
    /\ toast' = FreshUi.toast
    /\ undoRun' = 0
    /\ UNCHANGED stored

----------------------------------------------------------------------------
\* Service worker: specification

\* generations that exist when this version of the worker is registered
SwInit ==
    /\ \E k \in 0..NumStale :
        LET stale == {CACHE_NAME + i : i \in 1..k} IN
        /\ cacheKeys = SeqOfSet(stale)
        /\ store = [n \in Names |-> IF n \in stale THEN StaleCache(n) ELSE EmptyCache]
    /\ swState = "parsed"
    /\ installPc = "start"
    /\ staticFailed = {}
    /\ cdnPending = {}
    /\ cdnFailed = {}
    /\ skipWaitingCalled = FALSE
    /\ delPending = {}
    /\ deleteCalls = {}
    /\ activateRejected = FALSE
    /\ claimCalled = FALSE
    /\ req = [r \in 1..MaxReq |-> IdleReq]
    /\ writes = {}

\* the page is not part of this specification
Init ==
    /\ SwInit
    /\ PageLoaded
    /\ stored = NoStored
    /\ reloads = 0

Next ==
    \/ InstallOpen /\ UNCHANGED <<appVars, uiVars>>
    \/ InstallAddAll /\ UNCHANGED <<appVars, uiVars>>
    \/ \E u \in CDN_CACHE_FILES : CdnAddOk(u) /\ UNCHANGED <<appVars, uiVars>>
    \/ \E u \in CDN_CACHE_FILES : CdnAddFail(u) /\ UNCHANGED <<appVars, uiVars>>
    \/ SkipWaiting /\ UNCHANGED <<appVars, uiVars>>
    \/ ActivateStart /\ UNCHANGED <<appVars, uiVars>>
    \/ \E c \in Names : DeleteOk(c) /\ UNCHANGED <<appVars, uiVars>>
    \/ \E c \in Names : DeleteFail(c) /\ UNCHANGED <<appVars, uiVars>>
    \/ ClientsClaim /\ UNCHANGED <<appVars, uiVars>>
    \/ ActivateRejected /\ UNCHANGED <<appVars, uiVars>>
    \/ \E r \in 1..MaxReq, url \in Urls : FetchEvent(r, url) /\ UNCHANGED <<appVars, uiVars>>
    \/ \E r \in 1..MaxReq : CrossMatch(r) /\ UNCHANGED <<appVars, uiVars>>
    \/ \E r \in 1..MaxReq : CrossResponse(r) /\ UNCHANGED <<appVars, uiVars>>
    \/ \E r \in 1..MaxReq : CrossNetFail(r) /\ UNCHANGED <<appVars, uiVars>>
    \/ \E r \in 1..MaxReq : SameResponse(r) /\ UNCHANGED <<appVars, uiVars>>
    \/ \E r \in 1..MaxReq : SameNetFail(r) /\ UNCHANGED <<appVars, uiVars>>
    \/ \E r \in 1..MaxReq : SameFallback(r) /\ UNCHANGED <<appVars, uiVars>>
    \/ \E w \in writes : CacheWriteDone(w) /\ UNCHANGED <<appVars, uiVars>>
    \/ \E w \in writes : CacheWriteFail(w) /\ UNCHANGED <<appVars, uiVars>>

Spec == Init /\ [][Next]_vars

----------------------------------------------------------------------------
\* Page: specification

\* the service worker is not part of this specification
SwIdle ==
    /\ cacheKeys = <<>>
    /\ store = [n \in Names |-> EmptyCache]
    /\ swState = "parsed"
    /\ installPc = "start"
    /\ staticFailed = {}
    /\ cdnPending = {}
    /\ cdnFailed = {}
    /\ skipWaitingCalled = FALSE
    /\ delPending = {}
    /\ deleteCalls = {}
    /\ activateRejected = FALSE
    /\ claimCalled = FALSE
    /\ req = [r \in 1..MaxReq |-> IdleReq]
    /\ writes = {}

AppInit ==
    /\ PageLoaded
    /\ stored \in StoredBefore
    /\ reloads = 0
    /\ SwIdle

AppNext ==
    \/ Start /\ UNCHANGED <<swVars, uiVars>>
    \/ LoadOk /\ UNCHANGED <<swVars, uiVars>>
    \/ LoadFail /\ UNCHANGED <<swVars, uiVars>>
    \/ SleepDone /\ UNCHANGED <<swVars, uiVars>>
    \/ LoadingHidden /\ UNCHANGED <<swVars, uiVars>>
    \/ Retry /\ UNCHANGED <<swVars, uiVars>>

AppSpec == AppInit /\ [][AppNext]_vars

\* every started ModelManager.init() settles, and every timer fires
AppFairness ==
    /\ WF_vars(Start /\ UNCHANGED <<swVars, uiVars>>)
    /\ WF_vars((LoadOk \/ LoadFail) /\ UNCHANGED <<swVars, uiVars>>)
    /\ WF_vars(SleepDone /\ UNCHANGED <<swVars, uiVars>>)
    /\ WF_vars(LoadingHidden /\ UNCHANGED <<swVars, uiVars>>)

AppFairSpec == AppInit /\ [][AppNext]_vars /\ AppFairness

----------------------------------------------------------------------------
\* Page once shown: specifications

\* a first visit: nothing is stored yet
CanvasInit ==
    /\ PageLoaded
    /\ stored = NoStored
    /\ reloads = 0
    /\ SwIdle

\* a user who draws, undoes, clears and recognizes during one visit
UiNext ==
    \/ Start /\ UNCHANGED <<swVars, uiVars>>
    \/ LoadOk /\ UNCHANGED <<swVars, uiVars>>
    \/ LoadFail /\ UNCHANGED <<swVars, uiVars>>
    \/ SleepDone /\ UNCHANGED <<swVars, uiVars>>
    \/ LoadingHidden /\ UNCHANGED <<swVars, uiVars>>
    \/ Stroke(MaxDrawn) /\ UNCHANGED swVars
    \/ Undo /\ UNCHANGED swVars
    \/ Clear /\ UNCHANGED swVars
    \/ RecognizeClick /\ UNCHANGED swVars
    \/ ImageResolved /\ UNCHANGED swVars
    \/ ImageRejected /\ UNCHANGED swVars
    \/ \E c \in Confidences, ok \in BOOLEAN :
          PredictResolved(c, ok) /\ UNCHANGED swVars
    \/ PredictRejected /\ UNCHANGED swVars

UiSpec == CanvasInit /\ [][UiNext]_vars

\* a user who recognizes, resets the statistics and comes back later
StatsNext ==
    \/ Start /\ UNCHANGED <<swVars, uiVars>>
    \/ LoadOk /\ UNCHANGED <<swVars, uiVars>>
    \/ LoadingHidden /\ UNCHANGED <<swVars, uiVars>>
    \/ Stroke(MaxDrawn) /\ UNCHANGED swVars
    \/ RecognizeClick /\ UNCHANGED swVars
    \/ ImageResolved /\ UNCHANGED swVars
    \/ ImageRejected /\ UNCHANGED swVars
    \/ \E c \in Confidences, ok \in BOOLEAN :
          PredictResolved(c, ok) /\ UNCHANGED swVars
    \/ PredictRejected /\ UNCHANGED swVars
    \/ \E ok \in BOOLEAN : ResetStats(ok) /\ UNCHANGED swVars
    \/ NewSession /\ UNCHANGED swVars

StatsSpec == AppInit /\ [][StatsNext]_vars

\* a user who only draws
CanvasNext ==
    \/ Start /\ UNCHANGED <<swVars, uiVars>>
    \/ LoadOk /\ UNCHANGED <<swVars, uiVars>>
    \/ LoadingHidden /\ UNCHANGED <<swVars, uiVars>>
    \/ Stroke(MaxStrokes) /\ UNCHANGED swVars
    \/ Undo /\ UNCHANGED swVars
    \/ Clear /\ UNCHANGED swVars

CanvasSpec == CanvasInit /\ [][CanvasNext]_vars

----------------------------------------------------------------------------
\* Properties of the service worker (checked under Spec)

Slots == 1..MaxReq
CurrentHolds(url) == CACHE_NAME \in KeySet /\ store[CACHE_NAME][url] # NoEntry

\* C1: a cross-origin request whose url has an entry in the current generation
\* when caches.match runs is answered with the entry caches.match finds, and
\* fetch(request) is never called for it.
C1_CrossOriginCacheFirst ==
    [][\A r \in Slots :
          (req[r].pc = "match" /\ CurrentHolds(req[r].url) /\ req'[r] # req[r])
          => /\ req'[r].pc = "done"
             /\ req'[r].result = Cached(Match(req[r].url))
             /\ req'[r].netCalls = 0
             /\ req'[r].net = "none"]_vars

C1_Witness ==
    \E r \in Slots :
        /\ req[r].pc = "done"
        /\ IsCrossOrigin(req[r].url)
        /\ CurrentHolds(req[r].url)
        /\ req[r].result.kind = "cached"
        /\ req[r].netCalls = 0

\* C2: a same-origin request whose network fetch answered is resolved with
\* that live response (of any status), whether or not a cached copy exists.
C2_SameOriginNetworkFirst ==
    \A r \in Slots :
        (~IsCrossOrigin(req[r].url) /\ req[r].net = "responded")
        => /\ req[r].pc = "done"
           /\ req[r].result = Live(req[r].netResp)
           /\ req[r].netResp.body = r

C2_Witness ==
    \E r \in Slots :
        /\ ~IsCrossOrigin(req[r].url)
        /\ req[r].net = "responded"
        /\ Match(req[r].url) # NoEntry
        /\ Match(req[r].url) # req[r].result.resp
        /\ req[r].result.kind = "network"

\* C3: once the activate phase has completed (its promise fulfilled and
\* clients.claim called) the generations that exist are exactly {CACHE_NAME},
\* however many existed before, and fetch handling keeps it so.
C3_OnlyCurrentGeneration ==
    claimCalled => (KeySet = {CACHE_NAME} /\ Len(cacheKeys) = 1)

C3_Witness ==
    /\ claimCalled
    /\ Cardinality(deleteCalls) >= 2
    /\ KeySet = {CACHE_NAME}
    /\ \E r \in Slots : req[r].pc = "done" /\ store[CACHE_NAME][req[r].url].body = r

\* C7: a same-origin request whose network fetch failed and for which
\* caches.match finds nothing is rejected with 'No cached version available';
\* it is never resolved with a response.
C7_NoCachedVersion ==
    [][\A r \in Slots :
          (req[r].pc = "fallback" /\ Match(req[r].url) = NoEntry /\ req'[r] # req[r])
          => /\ req'[r].pc = "done"
             /\ req'[r].result = Failure("No cached version available")]_vars

C7_Witness ==
    \E r \in Slots :
        /\ ~IsCrossOrigin(req[r].url)
        /\ req[r].net = "failed"
        /\ req[r].pc = "done"
        /\ req[r].result.kind = "error"
        /\ req[r].result.err = "No cached version available"

\* C8: every entry of every generation holds a response with a successful
\* status, and every write still pending carries one.
C8_OnlySuccessfulStored ==
    /\ \A n \in Names, u \in Urls :
          store[n][u] # NoEntry => IsOk(store[n][u].status)
    /\ \A w \in writes : IsOk(w.resp.status)

C8_Witness ==
    /\ \E r \in Slots :
          /\ req[r].net = "responded"
          /\ ~IsOk(req[r].netResp.status)
          /\ store[CACHE_NAME][req[r].url] # req[r].netResp
    /\ \E r \in Slots :
          /\ req[r].net = "responded"
          /\ store[CACHE_NAME][req[r].url] = req[r].netResp
    /\ writes = {}

\* C9: when the caching of a manifest entry failed during install, the install
\* has failed: skipWaiting was not called, the activate phase does not run and
\* caches.delete was called for no generation.
C9_StaticFailureIsFatal ==
    staticFailed # {}
    => /\ swState = "redundant"
       /\ installPc = "rejected"
       /\ ~skipWaitingCalled
       /\ deleteCalls = {}
       /\ delPending = {}
       /\ ~claimCalled

C9_Witness ==
    /\ staticFailed # {}
    /\ staticFailed # STATIC_CACHE_FILES
    /\ swState = "redundant"
    /\ Len(cacheKeys) >= 2

\* C10: once every manifest entry is cached the install never fails, whatever
\* subset of the CDN files failed to cache; when all have settled skipWaiting
\* is the next step.
C10_CdnFailureNotFatal ==
    (installPc \in {"cdn", "done", "rejected"} /\ staticFailed = {})
    => /\ installPc # "rejected"
       /\ swState # "redundant"
       /\ (installPc = "cdn" /\ cdnPending = {}) => ENABLED SkipWaiting
       /\ installPc = "done" => skipWaitingCalled

C10_Witness ==
    /\ skipWaitingCalled
    /\ swState = "installed"
    /\ cdnFailed = CDN_CACHE_FILES

----------------------------------------------------------------------------
\* Properties of the bootstrap (checked under AppSpec)

RECURSIVE SumSeq(_)
SumSeq(q) == IF q = <<>> THEN 0 ELSE Head(q) + SumSeq(Tail(q))

ThreeFailures == <<"fail", "fail", "fail">>

\* C4: when ModelManager.init failed three times in one page load, the waits
\* were 1000 ms then 2000 ms, the error screen is shown and ModelManager.init
\* was called exactly three times.
C4_ThreeFailuresBackoff ==
    /\ outcomes = ThreeFailures
       => /\ waits = <<1000, 2000>>
          /\ bootPc = "failed"
          /\ errorShown
          /\ ~appShown
          /\ initCalls = 3
    /\ (Len(outcomes) = 2 /\ outcomes[1] = "fail" /\ outcomes[2] = "fail")
       => waits = <<1000, 2000>>
    /\ outcomes = <<"fail">> => waits = <<1000>>

C4_Witness ==
    /\ outcomes = ThreeFailures
    /\ bootPc = "failed"
    /\ reloads = 0

\* C5: when the load failed twice and then succeeded, and the collaborators
\* initialised, the page is Ready: app shown, error screen not shown, 1000 +
\* 2000 ms waited, currentAttempt = 3.
C5_SucceedsOnThirdAttempt ==
    (outcomes = <<"fail", "fail", "ok">> /\ secondary = "ok")
    => /\ bootPc = "ready"
       /\ appShown
       /\ ~errorShown
       /\ SumSeq(waits) = 1000 + 2000
       /\ currentAttempt = 3
       /\ initCalls = 3

C5_Witness ==
    /\ outcomes = <<"fail", "fail", "ok">>
    /\ secondary = "ok"
    /\ bootPc = "ready"

\* C6: the retry action taken after three failed attempts leaves a page in its
\* initial (Idle) state, currentAttempt = 1 and modelLoaded = FALSE, and the
\* run that follows has three attempts with the same waits again.
C6_RetryRestarts ==
    /\ [][(outcomes = ThreeFailures /\ errorShown /\ reloads' # reloads)
          => /\ bootPc' = "idle"
             /\ currentAttempt' = 1
             /\ modelLoaded' = FALSE
             /\ isLoaded' = FALSE
             /\ initCalls' = 0
             /\ waits' = <<>>
             /\ outcomes' = <<>>
             /\ errorShown' = FALSE]_vars
    /\ [](reloads > 0 =>
            /\ initCalls <= MAX_ATTEMPTS
            /\ outcomes = ThreeFailures
               => (waits = <<1000, 2000>> /\ bootPc = "failed" /\ initCalls = 3))

C6_Witness ==
    /\ reloads = 1
    /\ outcomes = ThreeFailures
    /\ bootPc = "failed"
    /\ waits = <<1000, 2000>>

Manifest == STATIC_CACHE_FILES \cup CDN_CACHE_FILES

\* C11: once install and activation completed, a request for a url of
\* STATIC_CACHE_FILES or CDN_CACHE_FILES that gets no answer from the network
\* is resolved with a cached response.
C11_OfflineAfterFirstLoad ==
    \A r \in Slots :
        (/\ claimCalled
         /\ req[r].pc = "done"
         /\ req[r].url \in Manifest
         /\ req[r].net # "responded")
        => req[r].result.kind = "cached"

LastOutcome == outcomes[Len(outcomes)]

\* C12: when ModelManager.init() succeeded and CanvasManager.init() or
\* UIManager.init() threw, the bootstrap is Failed with the error screen shown,
\* currentAttempt still counts the attempts made, no wait was scheduled for
\* the failure and ModelManager.init() was not called again.
C12_SecondaryFailureIsFinal ==
    secondary \in {"canvas", "ui"}
    => /\ LastOutcome = "ok"
       /\ bootPc = "failed"
       /\ errorShown
       /\ ~appShown
       /\ currentAttempt = Len(outcomes)
       /\ Len(waits) = Len(outcomes) - 1
       /\ initCalls = Len(outcomes)

C12_Witness ==
    /\ outcomes = <<"ok">>
    /\ secondary = "ui"
    /\ currentAttempt < MAX_ATTEMPTS
    /\ bootPc = "failed"

\* C13: the app container is shown only when a ModelManager.init() of this
\* page load succeeded and CanvasManager.init(), UIManager.init() and
\* StatsManager.init() all returned.
C13_AppShownOnlyWhenReady ==
    appShown
    => /\ modelLoaded
       /\ isLoaded
       /\ outcomes # <<>>
       /\ LastOutcome = "ok"
       /\ canvasReady
       /\ uiReady
       /\ secondary = "ok"
       /\ ~errorShown

C13_Witness ==
    /\ appShown
    /\ outcomes = <<"fail", "ok">>
    /\ secondary = "ok"

\* the step in which the cross-origin branch of slot r returns a network
\* response with status 200 after a cache miss
CrossMissAnswered(r) ==
    /\ req[r].pc = "net"
    /\ IsCrossOrigin(req[r].url)
    /\ req'[r].pc = "done"
    /\ req'[r].net = "responded"
    /\ req'[r].netResp.status = 200

\* C14 as stated: when the cross-origin branch returns a status-200 network
\* response after a cache miss, the current generation already holds the copy.
C14_StoredBeforeReturned ==
    [][\A r \in Slots :
          CrossMissAnswered(r)
          => /\ CACHE_NAME \in KeySet'
             /\ store'[CACHE_NAME][req[r].url] = req'[r].netResp]_vars

\* C14 amended: when the cross-origin branch returns a status-200 network
\* response after a cache miss, the write of the copy to the current generation
\* has been started and is still pending: the store is as it was, and the
\* response returned is the network's.
C14_WriteStartedBeforeReturned ==
    [][\A r \in Slots :
          CrossMissAnswered(r)
          => /\ WriteOf(r, req'[r].netResp) \in writes'
             /\ store' = store
             /\ cacheKeys' = cacheKeys
             /\ req'[r].result = Live(req'[r].netResp)]_vars

C14_Witness ==
    \E r \in Slots :
        /\ req[r].pc = "done"
        /\ IsCrossOrigin(req[r].url)
        /\ req[r].net = "responded"
        /\ req[r].netResp.status = 200
        /\ WriteOf(r, req[r].netResp) \in writes
        /\ store[CACHE_NAME][req[r].url] = NoEntry

\* the copy of slot r's network response is neither pending nor in the current
\* generation: its write failed or was overwritten
WriteLost(r) ==
    /\ WriteOf(r, req[r].netResp) \notin writes
    /\ \/ CACHE_NAME \notin KeySet
       \/ store[CACHE_NAME][req[r].url] # req[r].netResp

\* C15: in both branches a request whose network fetch answered is finished
\* with a result at once, whatever becomes of the cache write, and the
\* settling of a cache write changes no request.
C15_DeliveryIndependentOfWrite ==
    /\ [](\A r \in Slots :
            req[r].net = "responded"
            => /\ req[r].pc = "done"
               /\ req[r].result # NoResult
               /\ IsCrossOrigin(req[r].url)
                  => req[r].result = Live(req[r].netResp))
    /\ [][(\E w \in writes : w \notin writes') => req' = req]_vars

C15_Witness ==
    \E r, q \in Slots :
        /\ req[r].pc = "done" /\ req[q].pc = "done"
        /\ req[r].url # req[q].url
        /\ ShouldCache(req[r].netResp) /\ ShouldCache(req[q].netResp)
        /\ req[r].result = Live(req[r].netResp)
        /\ req[q].result = Live(req[q].netResp)
        /\ WriteOf(r, req[r].netResp) \in writes
        /\ WriteLost(q)

\* C16: while the last ModelManager.init() to settle failed and fewer than
\* MAX_ATTEMPTS attempts were made, the error screen is not shown: the status
\* line announces the next attempt, a wait was scheduled, and the next attempt
\* is awaited or running; after a failed load the error screen is shown exactly
\* when MAX_ATTEMPTS attempts were made.
C16_NoErrorScreenBeforeLastAttempt ==
    (outcomes # <<>> /\ LastOutcome = "fail")
    => /\ errorShown <=> Len(outcomes) = MAX_ATTEMPTS
       /\ Len(outcomes) < MAX_ATTEMPTS
          => /\ bootPc \in {"sleeping", "loading"}
             /\ currentAttempt = Len(outcomes) + 1
             /\ Len(waits) = Len(outcomes)
             /\ bootPc = "sleeping"
                => loadingStatus = Status("Retrying...", currentAttempt)

C16_Witness ==
    /\ outcomes = <<"fail", "fail">>
    /\ bootPc = "sleeping"
    /\ ~errorShown

Terminal == bootPc \in {"ready", "failed"}

\* C17: when every ModelManager.init() settles and every timer fires, a page
\* load reaches Ready or Failed; in Ready or Failed no step other than the
\* reload of retry() changes the bootstrap state or calls ModelManager.init().
C17_TerminatesAndStays ==
    /\ (~Terminal) ~> Terminal
    /\ [][(Terminal /\ reloads' = reloads)
          => /\ bootPc' = bootPc
             /\ currentAttempt' = currentAttempt
             /\ modelLoaded' = modelLoaded
             /\ initCalls' = initCalls
             /\ outcomes' = outcomes
             /\ waits' = waits
             /\ errorShown' = errorShown
             /\ appShown' = appShown]_vars

C17_Witness ==
    /\ bootPc = "ready"
    /\ outcomes = <<"fail", "ok">>
    /\ ~hideTimer
    /\ ~loadingVisible

\* C18: once activate called caches.delete, cache.addAll has fulfilled and
\* every cache.add has settled: install writes nothing any more.
C18_DeletionAfterInstallSettled ==
    deleteCalls # {}
    => /\ installPc = "done"
       /\ cdnPending = {}
       /\ staticFailed = {}
       /\ skipWaitingCalled
       /\ swState \in {"activating", "activated"}

C18_Witness ==
    /\ deleteCalls = StaleNames
    /\ cdnFailed # {}
    /\ cdnFailed # CDN_CACHE_FILES
    /\ delPending # {}

\* C19: when fetch(request) rejects in the cross-origin branch, the request
\* fails with the network's error, whatever the cache holds by then, fetch
\* was called once, and neither the store nor the pending writes change.
C19_CrossOriginFailurePropagates ==
    [][\A r \in Slots :
          (req[r].pc = "net" /\ IsCrossOrigin(req[r].url)
           /\ req'[r].net = "failed")
          => /\ req'[r].pc = "done"
             /\ req'[r].result = Failure("network")
             /\ req'[r].netCalls = 1
             /\ store' = store
             /\ cacheKeys' = cacheKeys
             /\ writes' = writes]_vars

C19_Witness ==
    \E r \in Slots :
        /\ req[r].pc = "done"
        /\ IsCrossOrigin(req[r].url)
        /\ req[r].net = "failed"
        /\ req[r].result.kind = "error"
        /\ Match(req[r].url) # NoEntry

\* C20: when fetch(request) rejected in the same-origin branch and caches.match
\* finds an entry, the request is answered with that entry and does not fail.
C20_SameOriginFallsBackToCache ==
    [][\A r \in Slots :
          (req[r].pc = "fallback" /\ Match(req[r].url) # NoEntry
           /\ req'[r] # req[r])
          => /\ req'[r].pc = "done"
             /\ req'[r].result = Cached(Match(req[r].url))
             /\ req'[r].netCalls = 1]_vars

C20_Witness ==
    \E r \in Slots :
        /\ req[r].pc = "done"
        /\ ~IsCrossOrigin(req[r].url)
        /\ req[r].net = "failed"
        /\ req[r].result.kind = "cached"
        /\ req[r].result.resp.status = 200

\* C21: from the moment install completed, the current generation holds an
\* entry for every path of STATIC_CACHE_FILES, caches.delete is never called
\* with CACHE_NAME, and once activation completed that generation is the only
\* one.
C21_CurrentGenerationKept ==
    /\ swState \in {"installed", "activating", "activated"}
       => /\ CACHE_NAME \in KeySet
          /\ \A u \in STATIC_CACHE_FILES : store[CACHE_NAME][u] # NoEntry
    /\ CACHE_NAME \notin deleteCalls
    /\ claimCalled => KeySet = {CACHE_NAME}

C21_Witness ==
    /\ claimCalled
    /\ deleteCalls = StaleNames
    /\ KeySet = {CACHE_NAME}
    /\ \A u \in STATIC_CACHE_FILES : IsOk(store[CACHE_NAME][u].status)

\* the step in which StatsManager.init() runs in a page opened after another
\* page in which it had run
InitAfterSession ==
    /\ reloads > 0
    /\ prevStats # NoPrev
    /\ secondary # "ok"
    /\ secondary' = "ok"

C23_DisplayedStatsAreLoaded ==
    bootPc = "ready"
    => /\ displayed = GetStats(stats)
       /\ (lastIo = "ok" /\ stored # NoStored)
          => displayed.total = stored.totalPredictions

\* C24: never more than MAX_HISTORY undo clicks in a row remove a stroke, and
\* drawingHistory never holds more than MAX_HISTORY entries.
C24_UndoAtMostTwenty ==
    /\ undoRun <= MAX_HISTORY
    /\ historyLen <= MAX_HISTORY

\* C25: currentAttempt stays within 1..MAX_ATTEMPTS and never decreases during
\* a page load, and ModelManager.init() is called at most MAX_ATTEMPTS times
\* per page load.
C25_AttemptCounterBounded ==
    /\ [](/\ currentAttempt >= 1
          /\ currentAttempt <= MAX_ATTEMPTS
          /\ initCalls <= MAX_ATTEMPTS
          /\ initCalls <= currentAttempt)
    /\ [][reloads' = reloads => currentAttempt' >= currentAttempt]_vars

C25_Witness ==
    /\ currentAttempt = MAX_ATTEMPTS
    /\ initCalls = MAX_ATTEMPTS
    /\ bootPc = "loading"

\* C26: clients.claim() is called only when every caches.delete of activate
\* has fulfilled and the generations it was called with are gone; when a
\* caches.delete rejected, clients.claim() is not called.
C26_ClaimAfterCleanup ==
    /\ claimCalled
       => /\ delPending = {}
          /\ deleteCalls \cap KeySet = {}
          /\ ~activateRejected
    /\ activateRejected => ~claimCalled

C26_Witness ==
    /\ claimCalled
    /\ swState = "activated"
    /\ Cardinality(deleteCalls) = NumStale
    /\ delPending = {}

StaticAllCached ==
    /\ CACHE_NAME \in KeySet
    /\ \A u \in STATIC_CACHE_FILES : store[CACHE_NAME][u] # NoEntry

\* C27: a cache.add of a CDN url is started only when cache.addAll has stored
\* every entry of STATIC_CACHE_FILES, and skipWaiting() is called only when
\* that succeeded and every cache.add has settled.
C27_InstallOrder ==
    /\ (cdnPending # {} \/ cdnFailed # {} \/ installPc = "cdn")
       => (StaticAllCached /\ staticFailed = {})
    /\ skipWaitingCalled
       => /\ StaticAllCached
          /\ staticFailed = {}
          /\ cdnPending = {}

C27_Witness ==
    /\ skipWaitingCalled
    /\ swState = "installed"
    /\ cdnFailed # {}
    /\ \E u \in CDN_CACHE_FILES : store[CACHE_NAME][u] # NoEntry

\* C28: when fetch(request) answers a same-origin request with a status other
\* than 200, the request is resolved with that response, no cache write is
\* started and the store is as it was, whatever the cache holds.
C28_ErrorStatusIsReturned ==
    [][\A r \in Slots :
          (/\ req[r].pc = "net"
           /\ ~IsCrossOrigin(req[r].url)
           /\ req'[r].net = "responded"
           /\ req'[r].netResp.status # 200)
          => /\ req'[r].pc = "done"
             /\ req'[r].result = Live(req'[r].netResp)
             /\ writes' = writes
             /\ store' = store
             /\ cacheKeys' = cacheKeys]_vars

C28_Witness ==
    \E r \in Slots :
        /\ req[r].pc = "done"
        /\ ~IsCrossOrigin(req[r].url)
        /\ req[r].net = "responded"
        /\ req[r].netResp.status = 404
        /\ req[r].result = Live(req[r].netResp)
        /\ Match(req[r].url) # NoEntry
        /\ IsOk(Match(req[r].url).status)

\* the step in which the cache write of slot r completes while the copy of
\* slot q, another status-200 answer to a same-origin request for the same url,
\* is the cached entry: after it both writes have completed
SecondWriteCompletes(r, q) ==
    /\ r # q
    /\ req[r].url = req[q].url
    /\ ~IsCrossOrigin(req[r].url)
    /\ req[r].ord > 0
    /\ req[q].ord > 0
    /\ WriteOf(r, req[r].netResp) \in writes
    /\ WriteOf(q, req[q].netResp) \notin writes
    /\ CACHE_NAME \in KeySet
    /\ store[CACHE_NAME][req[q].url] = req[q].netResp
    /\ CacheWriteDone(WriteOf(r, req[r].netResp))

\* C29 as stated: once both writes have completed, the cached entry is the
\* response of the network fetch that completed later.
C29_LaterFetchWins ==
    [][\A r, q \in Slots :
          SecondWriteCompletes(r, q)
          => store'[CACHE_NAME][req[r].url] =
                IF req[r].ord > req[q].ord THEN req[r].netResp
                ELSE req[q].netResp]_vars

\* C29 amended: once both writes have completed, the cached entry is the
\* response whose cache write completed last.
C29_LastWriteWins ==
    [][\A r, q \in Slots :
          SecondWriteCompletes(r, q)
          => store'[CACHE_NAME][req[r].url] = req[r].netResp]_vars

C29_Witness ==
    \E r, q \in Slots :
        /\ r # q
        /\ req[r].url = req[q].url
        /\ ~IsCrossOrigin(req[r].url)
        /\ req[r].ord > 0
        /\ req[q].ord > req[r].ord
        /\ WriteOf(r, req[r].netResp) \notin writes
        /\ WriteOf(q, req[q].netResp) \notin writes
        /\ store[CACHE_NAME][req[r].url] = req[r].netResp

\* C30: at most one handleRecognize call is past the guard; a click that
\* arrives while isPredicting is true changes nothing; isPredicting is false
\* when a call has finished, whether the prediction succeeded or failed.
C30_OnePredictionInFlight ==
    /\ [](/\ atImage + atPredict <= 1
          /\ isPredicting <=> (atImage + atPredict = 1))
    /\ [][(clicks' = clicks + 1 /\ isPredicting)
          => /\ ignored' = ignored + 1
             /\ UNCHANGED <<atImage, atPredict, isPredicting, btnDisabled,
                            canvasVars, statVars>>]_vars
    /\ [][(atImage' + atPredict' < atImage + atPredict) => ~isPredicting']_vars

C30_Witness ==
    /\ ignored = 1
    /\ clicks = 2
    /\ atImage + atPredict = 0
    /\ ~isPredicting
    /\ stats.totalPredictions = 1

\* C31: once UIManager.init has run, the recognize button is disabled whenever
\* the canvas is empty, whatever the order of strokes, undos, clears, clicks
\* and the settling of a prediction.
C31_DisabledWhenEmpty == (uiReady /\ isEmpty) => btnDisabled

\* C32: the recognize listener exists only after a ModelManager.init() call
\* has fulfilled, and ModelManager.predict is called only while the model is
\* loaded, so its 'Model not loaded' branch is never taken.
C32_PredictOnlyWhenLoaded ==
    /\ [](/\ uiReady => (isLoaded /\ modelLoaded /\ LastOutcome = "ok")
          /\ (atImage + atPredict > 0) => isLoaded)
    /\ [][(atPredict' > atPredict) => (isLoaded /\ isLoaded')]_vars

C32_Witness ==
    /\ atPredict = 1
    /\ isLoaded
    /\ Len(outcomes) = 2
    /\ outcomes[1] = "fail"

\* C33: a handleRecognize call that ends in its catch block (getImageData or
\* predict rejected) leaves the three statistics and their copy in
\* localStorage as they were; a call that succeeds raises totalPredictions by
\* exactly 1, and in a page whose UI is initialized nothing else raises it.
C33_StatsCountSuccessesOnly ==
    /\ [][(atImage' + atPredict' < atImage + atPredict /\ toast' = "failed")
          => UNCHANGED <<stats, stored>>]_vars
    /\ [][(atPredict' < atPredict /\ toast' = "complete")
          => stats'.totalPredictions = stats.totalPredictions + 1]_vars
    /\ [][(uiReady /\ uiReady'
           /\ stats'.totalPredictions > stats.totalPredictions)
          => /\ stats'.totalPredictions = stats.totalPredictions + 1
             /\ atPredict' = atPredict - 1
             /\ toast' = "complete"]_vars

C33_Witness ==
    /\ toast = "failed"
    /\ clicks = 2
    /\ ignored = 0
    /\ atImage + atPredict = 0
    /\ stats.totalPredictions = stored.totalPredictions
    /\ stats.totalPredictions > 1

====
